---- MODULE Spec2Model ----
(***************************************************************************)
(* A model of the dynamixel-scraper pipeline: the table merger             *)
(* (download.rs), the record normalizer (serialize.rs), the aggregator     *)
(* and code generator (create_lib.rs) and the orchestration (main.rs).     *)
(*                                                                         *)
(* Text is modelled as a sequence of characters, each character a          *)
(* one-character string, so that filtering, regular-expression matching,   *)
(* number parsing and CSV rendering are computed as the code computes     *)
(* them.                                                                   *)
(***************************************************************************)
EXTENDS Integers, Sequences, FiniteSets, TLC

VARIABLES
    pc,              \* position of the operation under analysis
    text,            \* RangeValue::new: the token handed in
    rv,              \* RangeValue::new: the outcome
    servo,           \* parse_servo: the grid handed in (header row + data rows)
    lowest_address,  \* parse_servo: tracked minimum indirect index
    highest_address, \* parse_servo: tracked maximum indirect index
    lines,           \* parse_servo: the rows retained by the first loop
    data,            \* parse_servo: the outcome
    page,            \* merge_tables: the two selected tables of the page
    merged,          \* merge_tables: the outcome
    servos,          \* create_lib: the devices handed in, in input order
    addresses,       \* create_lib: the aggregated map series -> model -> name -> record
    lib,             \* create_lib: the generated library text
    cargo,           \* create_lib: the generated manifest text
    stream,          \* main: the selected devices not yet taken from stream::iter
    counter,         \* main: the devices taken from the stream so far
    tasks,           \* main: the state of every spawned device task
    buffer,          \* main: the join handles held by buffer_unordered
    fetches          \* main: the task results collected so far

vars == <<pc, text, rv, servo, lowest_address, highest_address, lines, data,
          page, merged, servos, addresses, lib, cargo,
          stream, counter, tasks, buffer, fetches>>

\* the state of main
main_vars == <<stream, counter, tasks, buffer, fetches>>

\* main is not under analysis
NoMain ==
    /\ stream = <<>> /\ counter = 0 /\ tasks = <<>> /\ buffer = {} /\ fetches = <<>>

----------------------------------------------------------------------------
(* Bounds of the model *)

\* longest token enumerated exhaustively for RangeValue::new
MaxLen == 3

----------------------------------------------------------------------------
(* Characters *)

Digits == {"0", "1", "2", "3", "4", "5", "6", "7", "8", "9"}

Lower == {"a", "b", "c", "d", "e", "f", "g", "h", "i", "j", "k", "l", "m",
          "n", "o", "p", "q", "r", "s", "t", "u", "v", "w", "x", "y", "z"}

Upper == {"A", "B", "C", "D", "E", "F", "G", "H", "I", "J", "K", "L", "M",
          "N", "O", "P", "Q", "R", "S", "T", "U", "V", "W", "X", "Y", "Z"}

DigitVal(c) ==
    CASE c = "0" -> 0 [] c = "1" -> 1 [] c = "2" -> 2 [] c = "3" -> 3
      [] c = "4" -> 4 [] c = "5" -> 5 [] c = "6" -> 6 [] c = "7" -> 7
      [] c = "8" -> 8 [] c = "9" -> 9

\* char::is_alphabetic, char::is_numeric, char::is_alphanumeric
Alphabetic == Lower \cup Upper

Numeric == Digits

Alphanumeric == Alphabetic \cup Numeric

\* s.chars().filter(|c| keep.contains(c)).collect::<String>()
RECURSIVE Only(_, _)
Only(s, keep) ==
    IF s = <<>> THEN <<>>
    ELSE IF Head(s) \in keep THEN <<Head(s)>> \o Only(Tail(s), keep)
    ELSE Only(Tail(s), keep)

\* s.chars().filter(|c| !drop.contains(c)).collect::<String>()
RECURSIVE Without(_, _)
Without(s, drop) ==
    IF s = <<>> THEN <<>>
    ELSE IF Head(s) \notin drop THEN <<Head(s)>> \o Without(Tail(s), drop)
    ELSE Without(Tail(s), drop)

\* s.chars().all(|c| class.contains(c))
AllIn(s, class) == \A i \in 1..Len(s) : s[i] \in class

starts_with(s, c) == Len(s) > 0 /\ s[1] = c

\* the sequences over `alphabet` of length 0..n
SeqsUpTo(alphabet, n) == UNION {[1..k -> alphabet] : k \in 0..n}

----------------------------------------------------------------------------
(* serialize.rs: RangeValue::new *)

I32Max == 2147483647

I32Min == -I32Max - 1

\* the number of leading characters of s that belong to class
Run(s, class) ==
    CHOOSE n \in 0..Len(s) :
        /\ \A i \in 1..n : s[i] \in class
        /\ n = Len(s) \/ s[n + 1] \notin class

Drop(s, n) == SubSeq(s, n + 1, Len(s))

\* -? : the text after the optional leading minus
AfterMinus(s) == IF starts_with(s, "-") THEN Tail(s) ELSE s

\* ADDRESS_RE without its end anchor: ^-?([a-zA-Z]+)[0-9]*
ADDRESS_RE_Unanchored(s) == Run(AfterMinus(s), Alphabetic) >= 1

\* [a-zA-Z]+[0-9]*$ : a greedy run of ASCII letters (at least one), then
\* digits up to the end
LettersThenDigits(a, n) == n >= 1 /\ AllIn(Drop(a, n), Numeric)

\* ADDRESS_RE = ^-?([a-zA-Z]+)[0-9]*$
ADDRESS_RE(s) == LettersThenDigits(AfterMinus(s), Run(AfterMinus(s), Alphabetic))

\* [0-9]+$
DigitsOnly(a) == Len(a) >= 1 /\ AllIn(a, Numeric)

\* INTEGER_RE = ^-?[0-9]+$
INTEGER_RE(s) == DigitsOnly(AfterMinus(s))

\* str::parse::<i32>: a sign, then digits accumulated with checked
\* multiplication and addition (subtraction for a negative number);
\* ok = FALSE stands for Err(ParseIntError)
RECURSIVE AccPos(_, _, _)
AccPos(ds, acc, max) ==
    IF ds = <<>> THEN [ok |-> TRUE, value |-> acc]
    ELSE IF acc > (max - DigitVal(Head(ds))) \div 10 THEN [ok |-> FALSE, value |-> 0]
    ELSE AccPos(Tail(ds), acc * 10 + DigitVal(Head(ds)), max)

RECURSIVE AccNeg(_, _, _)
AccNeg(ds, acc, min) ==
    IF ds = <<>> THEN [ok |-> TRUE, value |-> acc]
    ELSE IF acc < (min + DigitVal(Head(ds)) + 9) \div 10 THEN [ok |-> FALSE, value |-> 0]
    ELSE AccNeg(Tail(ds), acc * 10 - DigitVal(Head(ds)), min)

\* the number parsed into a 16-bit integer instead
parse_i16(s) ==
    IF starts_with(s, "-") THEN AccNeg(Tail(s), 0, -32768)
    ELSE AccPos(s, 0, 32767)

parse_i32(s) ==
    IF starts_with(s, "-") THEN AccNeg(Tail(s), 0, I32Min)
    ELSE AccPos(s, 0, I32Max)

\* the outcomes of RangeValue::new
Integer(v) == [kind |-> "Integer", value |-> v, name |-> <<>>, negative |-> FALSE]

Address(n, neg) == [kind |-> "Address", value |-> 0, name |-> n, negative |-> neg]

RvErr == [kind |-> "Err", value |-> 0, name |-> <<>>, negative |-> FALSE]

RvPanic == [kind |-> "Panic", value |-> 0, name |-> <<>>, negative |-> FALSE]

\* line 89: Ok(RangeValue::Integer(num.parse::<i32>()?))
IntegerOf(num) == IF num.ok THEN Integer(num.value) ELSE RvErr

\* lines 66-92, the two regular expressions having been tried
Classify(filtered_text, address_matches, integer_matches) ==
    IF address_matches /\ integer_matches THEN RvPanic
    ELSE IF ~address_matches /\ ~integer_matches THEN RvPanic
    ELSE IF address_matches
         THEN Address(Only(filtered_text, Alphabetic), starts_with(filtered_text, "-"))
    ELSE IntegerOf(parse_i32(filtered_text))

\* lines 72-85 with the sign looked for after the letters were filtered
Classify_SignLost(filtered_text, address_matches, integer_matches) ==
    IF address_matches = integer_matches THEN RvPanic
    ELSE IF address_matches
         THEN Address(Only(filtered_text, Alphabetic),
                      starts_with(Only(filtered_text, Alphabetic), "-"))
    ELSE IntegerOf(parse_i32(filtered_text))

\* lines 63-64
Matched(filtered_text) ==
    Classify(filtered_text, ADDRESS_RE(filtered_text), INTEGER_RE(filtered_text))

Matched_SignLost(filtered_text) ==
    Classify_SignLost(filtered_text, ADDRESS_RE(filtered_text), INTEGER_RE(filtered_text))

\* RangeValue::new with the sign looked for after the letters were filtered
RangeValueNew_SignLost(t) == Matched_SignLost(Without(t, {","}))

\* lines 53-93: RangeValue::new
RangeValueNew(t) == Matched(Without(t, {","}))

----------------------------------------------------------------------------
(* Unsigned numbers kept as decimal digit strings (u32 exceeds the checker's
   integers): canonical form and order *)

\* decimal digits without leading zeros
RECURSIVE StripZeros(_)
StripZeros(ds) ==
    IF Len(ds) > 1 /\ Head(ds) = "0" THEN StripZeros(Tail(ds)) ELSE ds

\* a <= b for two digit strings of one length
RECURSIVE LexLeq(_, _)
LexLeq(a, b) ==
    IF a = <<>> THEN TRUE
    ELSE IF DigitVal(Head(a)) # DigitVal(Head(b))
         THEN DigitVal(Head(a)) < DigitVal(Head(b))
    ELSE LexLeq(Tail(a), Tail(b))

\* a <= b for two digit strings without leading zeros
DigitsLeq(a, b) == Len(a) < Len(b) \/ (Len(a) = Len(b) /\ LexLeq(a, b))

\* a > b on canonical digit strings
DigitsGt(a, b) == ~DigitsLeq(a, b)

----------------------------------------------------------------------------
(* serialize.rs: parse_servo *)

\* Option<T>
None == <<>>

Some(x) == <<x>>

Unwrap(o) == o[1]

unwrap_or(o, d) == IF o = None THEN d ELSE o[1]

bad_chars == {".", "-", " ", "ELLIPSIS", "~", "NBSP"}

\* lines 109-116: a cell made of placeholder glyphs only is absent
line_to_add(line) ==
    [i \in 1..Len(line) |-> IF AllIn(line[i], bad_chars) THEN None ELSE Some(line[i])]

\* line.clone().into_iter().collect::<String>(): the cells joined, no separator
RECURSIVE Concat(_)
Concat(line) ==
    IF line = <<>> THEN <<>> ELSE Head(line) \o Concat(Tail(line))

IndirectPrefixes == { <<"I","n","d","i","r","e","c","t"," ","A","d","d","r","e","s","s"," ">>,
                      <<"I","n","d","i","r","e","c","t"," ","D","a","t","a"," ">> }

HasPrefixAt(s, i, p) ==
    /\ i + Len(p) - 1 <= Len(s)
    /\ SubSeq(s, i, i + Len(p) - 1) = p

\* (?:N|[0-9]*) : an "N" if one follows, else the greedy (possibly empty)
\* run of digits
IndexToken(rest) ==
    IF starts_with(rest, "N") THEN <<"N">> ELSE SubSeq(rest, 1, Run(rest, Numeric))

\* the match that starts at i with the literal prefix p.  The pattern has no
\* capture group, so the captures hold group 0 (the whole match) alone.
CapturesAt(s, i, p) == Some(<<p \o IndexToken(Drop(s, i + Len(p) - 1))>>)

LeftmostMatch(s, starts) ==
    IF starts = {} THEN None
    ELSE CapturesAt(s,
                    CHOOSE j \in starts : \A k \in starts : j <= k,
                    CHOOSE q \in IndirectPrefixes :
                        HasPrefixAt(s, CHOOSE j \in starts : \A k \in starts : j <= k, q))

\* INDERECT_RE = Indirect (?:Address|Data) (?:N|[0-9]*), unanchored:
\* INDERECT_RE.captures(s), the leftmost match
INDERECT_RE(s) ==
    LeftmostMatch(s, {i \in 1..Len(s) : \E p \in IndirectPrefixes : HasPrefixAt(s, i, p)})

U32MaxDigits == <<"4","2","9","4","9","6","7","2","9","5">>

\* an unsigned number's digits after the optional plus sign
U32Of(body) ==
    IF body = <<>> \/ ~AllIn(body, Numeric) THEN [ok |-> FALSE, value |-> <<>>]
    ELSE IF ~DigitsLeq(StripZeros(body), U32MaxDigits) THEN [ok |-> FALSE, value |-> <<>>]
    ELSE [ok |-> TRUE, value |-> StripZeros(body)]

\* str::parse::<u32>, the value kept as its canonical digit string
parse_u32(s) == U32Of(IF starts_with(s, "+") THEN Tail(s) ELSE s)

\* lines 108-140: the first loop, row by row.  The state carried is the
\* retained rows, the tracked lowest and highest index, and whether the
\* `?` of line 127 returned early.
ScanStart == [lines |-> <<>>, lowest |-> None, highest |-> None, failed |-> FALSE]

\* lines 127-135
Track(st, current_value) ==
    IF ~current_value.ok THEN [st EXCEPT !.failed = TRUE]
    ELSE [st EXCEPT
            !.lowest = IF DigitsGt(unwrap_or(st.lowest, U32MaxDigits), current_value.value)
                       THEN Some(current_value.value) ELSE @,
            !.highest = IF DigitsGt(current_value.value, unwrap_or(st.highest, <<"0">>))
                        THEN Some(current_value.value) ELSE @]

\* lines 122-125: captures.get(captures.len() - 1) is the last group
Matched_Row(st, current_match) ==
    IF ~AllIn(current_match, Numeric) THEN st
    ELSE Track(st, parse_u32(current_match))

\* lines 118-139
ScanCells(st, cells, captures) ==
    IF st.failed THEN st
    ELSE IF \A i \in 1..Len(cells) : cells[i] = None THEN st
    ELSE IF captures = None THEN [st EXCEPT !.lines = Append(@, cells)]
    ELSE Matched_Row(st, Unwrap(captures)[Len(Unwrap(captures))])

ScanRow(st, line) == ScanCells(st, line_to_add(line), INDERECT_RE(Concat(line)))

RECURSIVE Scan(_, _)
Scan(st, rows) ==
    IF rows = <<>> THEN st ELSE Scan(ScanRow(st, Head(rows)), Tail(rows))

\* heading -> column with or_insert in place of insert: a heading met again
\* keeps the column stored for it
indexes_first_kept(header) ==
    [h \in {header[i] : i \in 1..Len(header)} |->
        CHOOSE i \in 1..Len(header) :
            header[i] = h /\ \A j \in 1..Len(header) : header[j] = h => i <= j]

\* lines 142-145: heading -> column; a heading inserted again replaces the
\* column stored for it
indexes(header) ==
    [h \in {header[i] : i \in 1..Len(header)} |->
        CHOOSE i \in 1..Len(header) :
            header[i] = h /\ \A j \in 1..Len(header) : header[j] = h => j <= i]

contains_key(idx, heading) == heading \in DOMAIN idx

\* outcomes of a fallible step: Ok(value), Err (returned by `?`) or Panic
Ok(v) == [kind |-> "Ok", why |-> "", val |-> v]

Fail(k, w) == [kind |-> k, why |-> w, val |-> None]

\* lines 7-20: try_find; indexing a row shorter than the column panics
try_find(idx, line, heading) ==
    IF ~contains_key(idx, heading) THEN Ok(None)
    ELSE IF idx[heading] > Len(line) THEN Fail("Panic", "index out of bounds")
    ELSE Ok(line[idx[heading]])

\* line[*indexes.get(heading).unwrap()].unwrap()
mandatory(idx, line, heading) ==
    IF ~contains_key(idx, heading) THEN Fail("Panic", "unwrap on None")
    ELSE IF idx[heading] > Len(line) THEN Fail("Panic", "index out of bounds")
    ELSE IF line[idx[heading]] = None THEN Fail("Panic", "unwrap on None")
    ELSE Ok(Unwrap(line[idx[heading]]))

UnsignedOf(body, max) ==
    IF body = <<>> \/ ~AllIn(body, Numeric) THEN [ok |-> FALSE, value |-> 0]
    ELSE AccPos(body, 0, max)

\* str::parse::<u16>, str::parse::<u8>
parse_unsigned(s, max) == UnsignedOf(IF starts_with(s, "+") THEN Tail(s) ELSE s, max)

U16Max == 65535

U8Max == 255

\* the outcome of RangeValue::new as a fallible step
Lift(r) ==
    IF r.kind = "Panic" THEN Fail("Panic", "assertion failed")
    ELSE IF r.kind = "Err" THEN Fail("Err", "ParseIntError")
    ELSE Ok(r)

\* RangeValue::new(..)?
new_range_value(t) == Lift(RangeValueNew(t))

\* text.split('~') for a text holding exactly one tilde
BeforeTilde(t) == SubSeq(t, 1, (CHOOSE i \in 1..Len(t) : t[i] = "~") - 1)

AfterTilde(t) == Drop(t, CHOOSE i \in 1..Len(t) : t[i] = "~")

\* Some((min, max)), min's failure first
PairOf(min, max) ==
    IF min.kind # "Ok" THEN min
    ELSE IF max.kind # "Ok" THEN max
    ELSE Ok(Some(<<min.val, max.val>>))

\* a pair of range values, min first, both parsed with `?`
range_pair(min_text, max_text) ==
    PairOf(new_range_value(min_text), new_range_value(max_text))

\* lines 149-178 without the test of line 151: the assertion of line 152
\* meets every present "Range" cell
RangeFrom_asserted(txt, min_text, max_text) ==
    IF txt.kind # "Ok" THEN txt
    ELSE IF txt.val # None
         THEN IF Len(Only(Unwrap(txt.val), {"~"})) = 1
              THEN range_pair(Only(BeforeTilde(Unwrap(txt.val)), Alphanumeric \cup {"-"}),
                              Only(AfterTilde(Unwrap(txt.val)), Alphanumeric \cup {"-"}))
              ELSE Fail("Panic", "assertion failed")
    ELSE IF min_text.kind # "Ok" THEN min_text
    ELSE IF min_text.val # None
         THEN IF max_text.kind # "Ok" THEN max_text
              ELSE IF max_text.val # None
                   THEN range_pair(Unwrap(min_text.val), Unwrap(max_text.val))
                   ELSE Ok(None)
    ELSE Ok(None)

\* lines 149-178, the three cells having been looked up
RangeFrom(txt, min_text, max_text) ==
    IF txt.kind # "Ok" THEN txt
    ELSE IF txt.val # None
         THEN IF Len(Only(Unwrap(txt.val), {"~"})) = 1
              THEN range_pair(Only(BeforeTilde(Unwrap(txt.val)), Alphanumeric \cup {"-"}),
                              Only(AfterTilde(Unwrap(txt.val)), Alphanumeric \cup {"-"}))
              ELSE Ok(None)
    ELSE IF min_text.kind # "Ok" THEN min_text
    ELSE IF min_text.val # None
         THEN IF max_text.kind # "Ok" THEN max_text
              ELSE IF max_text.val # None
                   THEN range_pair(Unwrap(min_text.val), Unwrap(max_text.val))
                   ELSE Ok(None)
    ELSE Ok(None)

\* lines 149-178: the range of a row
range_of(idx, line) ==
    RangeFrom(try_find(idx, line, "Range"),
              try_find(idx, line, "Min"),
              try_find(idx, line, "Max"))

\* the access match with a default arm in place of the panic
access_default_read(tok) ==
    IF tok \in {<<"R","W">>, <<"R","/","R","W">>} THEN Ok("ReadWrite") ELSE Ok("Read")

\* lines 189-194: the access level of a token
access_of(tok) ==
    IF tok = <<"R">> THEN Ok("Read")
    ELSE IF tok = <<"R","W">> THEN Ok("ReadWrite")
    ELSE IF tok = <<"R","/","R","W">> THEN Ok("ReadWrite")
    ELSE Fail("Panic", "Unknown level")

SomeOf(parsed) == IF parsed.kind # "Ok" THEN parsed ELSE Ok(Some(parsed.val))

InitialFrom(found) ==
    IF found.kind # "Ok" THEN found
    ELSE IF found.val = None THEN Ok(None)
    ELSE SomeOf(new_range_value(Without(Unwrap(found.val), {" "})))

\* lines 195-200: the initial value of a row
initial_value_of(idx, line) == InitialFrom(try_find(idx, line, "Initial Value"))

\* lines 180-203: the struct literal, its fields evaluated in the order the
\* code writes them, after the range
Fields(range, address_text, size_text, data_name, description, access_text, initial_value) ==
    IF range.kind # "Ok" THEN range
    ELSE IF address_text.kind # "Ok" THEN address_text
    ELSE IF ~parse_unsigned(address_text.val, U16Max).ok THEN Fail("Err", "ParseIntError")
    ELSE IF size_text.kind # "Ok" THEN size_text
    ELSE IF ~parse_unsigned(size_text.val, U8Max).ok THEN Fail("Err", "ParseIntError")
    ELSE IF data_name.kind # "Ok" THEN data_name
    ELSE IF description.kind # "Ok" THEN description
    ELSE IF access_text.kind # "Ok" THEN access_text
    ELSE IF access_of(access_text.val).kind # "Ok" THEN access_of(access_text.val)
    ELSE IF initial_value.kind # "Ok" THEN initial_value
    ELSE Ok([address |-> parse_unsigned(address_text.val, U16Max).value,
             size |-> parse_unsigned(size_text.val, U8Max).value,
             data_name |-> data_name.val,
             description |-> description.val,
             access |-> access_of(access_text.val).val,
             initial_value |-> initial_value.val,
             range |-> range.val,
             units |-> None])

\* lines 149-203: one retained row made into a ControlTableData
ControlTableData(idx, line) ==
    Fields(range_of(idx, line),
           mandatory(idx, line, "Address"),
           mandatory(idx, line, "Size(byte)"),
           try_find(idx, line, "Data Name"),
           try_find(idx, line, "Description"),
           mandatory(idx, line, "Access"),
           initial_value_of(idx, line))

\* no call made yet
NoRecords == [kind |-> "None", why |-> "", records |-> <<>>]

\* lines 147-206: the second loop; the first row that fails ends the call
RECURSIVE Records(_, _, _)
Pushed(idx, rows, acc, r) ==
    IF r.kind # "Ok" THEN [kind |-> r.kind, why |-> r.why, records |-> <<>>]
    ELSE Records(idx, Tail(rows), Append(acc, r.val))

Records(idx, rows, acc) ==
    IF rows = <<>> THEN [kind |-> "Ok", why |-> "", records |-> acc]
    ELSE Pushed(idx, rows, acc, ControlTableData(idx, Head(rows)))

Scanned(grid, scan) ==
    [lines |-> scan.lines,
     lowest_address |-> scan.lowest,
     highest_address |-> scan.highest,
     data |-> IF scan.failed
              THEN [kind |-> "Err", why |-> "ParseIntError", records |-> <<>>]
              ELSE Records(indexes(grid[1]), scan.lines, <<>>)]

\* lines 96-207: parse_servo
parse_servo(grid) == Scanned(grid, Scan(ScanStart, Tail(grid)))

----------------------------------------------------------------------------
(* Letter case *)

LowerSeq == <<"a", "b", "c", "d", "e", "f", "g", "h", "i", "j", "k", "l", "m",
              "n", "o", "p", "q", "r", "s", "t", "u", "v", "w", "x", "y", "z">>

UpperSeq == <<"A", "B", "C", "D", "E", "F", "G", "H", "I", "J", "K", "L", "M",
              "N", "O", "P", "Q", "R", "S", "T", "U", "V", "W", "X", "Y", "Z">>

\* char::to_uppercase, char::to_lowercase
to_upper(c) ==
    IF c \in Lower THEN UpperSeq[CHOOSE i \in 1..Len(LowerSeq) : LowerSeq[i] = c] ELSE c

to_lower(c) ==
    IF c \in Upper THEN LowerSeq[CHOOSE i \in 1..Len(UpperSeq) : UpperSeq[i] = c] ELSE c

\* str::to_uppercase
to_uppercase(s) == [i \in 1..Len(s) |-> to_upper(s[i])]

----------------------------------------------------------------------------
(* download.rs: parse_table and merge_tables *)

\* the pieces between the occurrences of a one-character separator
RECURSIVE SplitChar(_, _)
SplitCons(c, rest, seps) ==
    IF c \in seps THEN <<<<>>>> \o rest
    ELSE <<<<c>> \o Head(rest)>> \o Tail(rest)

SplitChar(s, seps) ==
    IF s = <<>> THEN <<<<>>>> ELSE SplitCons(Head(s), SplitChar(Tail(s), seps), seps)

\* pieces.join(sep)
RECURSIVE Join(_, _)
Join(pieces, sep) ==
    IF pieces = <<>> THEN <<>>
    ELSE IF Len(pieces) = 1 THEN Head(pieces)
    ELSE Head(pieces) \o sep \o Join(Tail(pieces), sep)

IsWord(w) == w # <<>>

\* a word with its first letter in upper case and the rest in lower case
Capitalise(w) == [i \in 1..Len(w) |-> IF i = 1 THEN to_upper(w[i]) ELSE to_lower(w[i])]

CapitaliseAll(words) == [i \in 1..Len(words) |-> Capitalise(words[i])]

\* text.to_case(Case::Title): the words between spaces, hyphens and
\* underscores, each capitalised, joined by single spaces
to_case_Title(t) ==
    Join(CapitaliseAll(SelectSeq(SplitChar(t, {" ", "-", "_"}), IsWord)), <<" ">>)

\* lines 18-25: the heading cells rendered into the first line
RECURSIVE HeadingLine(_, _)
HeadingLine(csv, headings) ==
    IF headings = <<>> THEN csv
    ELSE HeadingLine((IF csv # <<>> THEN csv \o <<",", " ">> ELSE csv)
                         \o to_case_Title(Head(headings)),
                     Tail(headings))

\* lines 38-54: one body cell, commas already filtered out, appended
PushCell(st, t, width) ==
    IF t = <<>> THEN st
    ELSE [csv |-> st.csv \o (IF st.items_in_line > 0 THEN <<",", " ">> ELSE <<>>) \o t
                     \o (IF st.items_in_line + 1 = width THEN <<"\n">> ELSE <<>>),
          items_in_line |-> IF st.items_in_line + 1 = width THEN 0
                            ELSE st.items_in_line + 1]

\* lines 29-55: the body cells in document order
RECURSIVE BodyLines(_, _, _)
BodyLines(st, body, width) ==
    IF body = <<>> THEN st
    ELSE BodyLines(PushCell(st, Without(Head(body), {","}), width), Tail(body), width)

\* lines 5-58: parse_table
parse_table(table) ==
    BodyLines([csv |-> HeadingLine(<<>>, table.headings) \o <<"\n">>, items_in_line |-> 0],
              table.body, Len(table.headings)).csv

\* a text without its last piece when that piece is empty
DropEmptyLast(pieces) ==
    IF pieces[Len(pieces)] = <<>> THEN SubSeq(pieces, 1, Len(pieces) - 1) ELSE pieces

\* str::lines(): the pieces ended by a newline, a last piece without one
\* included when it is not empty
Lines(s) == DropEmptyLast(SplitChar(s, {"\n"}))

\* s.lines().next()
FirstLine(s) == IF Lines(s) = <<>> THEN None ELSE Some(Head(Lines(s)))

\* no call made yet
NoGrid == [kind |-> "None", csv |-> <<>>]

\* lines 72-76: the assertion on the first lines, then the second table's
\* lines after its first pushed onto the first table's text
Combine(eeprom, ram) ==
    IF FirstLine(eeprom) # FirstLine(ram) THEN [kind |-> "Panic", csv |-> <<>>]
    ELSE [kind |-> "Ok", csv |-> eeprom \o Join(Tail(Lines(ram)), <<"\n">>)]

\* lines 60-77: merge_tables on the two selected tables
merge_tables(tables) == Combine(parse_table(tables[1]), parse_table(tables[2]))

\* analysis.rs line 23: row.split(", "), the cells of a line
RECURSIVE SplitCells(_)
SplitCells(s) ==
    IF \E i \in 1..(Len(s) - 1) : s[i] = "," /\ s[i + 1] = " "
    THEN <<SubSeq(s, 1, (CHOOSE i \in 1..(Len(s) - 1) :
                            /\ s[i] = "," /\ s[i + 1] = " "
                            /\ \A j \in 1..(i - 1) : ~(s[j] = "," /\ s[j + 1] = " ")) - 1)>>
         \o SplitCells(Drop(s, (CHOOSE i \in 1..(Len(s) - 1) :
                            /\ s[i] = "," /\ s[i + 1] = " "
                            /\ \A j \in 1..(i - 1) : ~(s[j] = "," /\ s[j + 1] = " ")) + 1))
    ELSE <<s>>

----------------------------------------------------------------------------
(* create_lib.rs: create_lib *)

\* the order of the characters in use, as their code points order them
CharOrder == <<" ", "-", "/">> \o <<"0", "1", "2", "3", "4", "5", "6", "7", "8", "9">>
                 \o UpperSeq \o LowerSeq

CharCode(c) == CHOOSE i \in 1..Len(CharOrder) : CharOrder[i] = c

\* String's Ord: a < b, lexicographic
RECURSIVE StrLess(_, _)
StrLess(a, b) ==
    IF b = <<>> THEN FALSE
    ELSE IF a = <<>> THEN TRUE
    ELSE IF Head(a) # Head(b) THEN CharCode(Head(a)) < CharCode(Head(b))
    ELSE StrLess(Tail(a), Tail(b))

\* the keys of a BTreeMap in iteration order
RECURSIVE SortedKeys(_)
LeastKey(keys) == CHOOSE k \in keys : \A j \in keys : j = k \/ StrLess(k, j)

SortedKeys(keys) ==
    IF keys = {} THEN <<>>
    ELSE <<LeastKey(keys)>> \o SortedKeys(keys \ {LeastKey(keys)})

\* BTreeMap::new()
EmptyMap == <<>>

\* map.insert(k, v): the value stored for k is replaced
Insert(map, k, v) == [x \in DOMAIN map \cup {k} |-> IF x = k THEN v ELSE map[x]]

\* map.entry(k).or_insert_with(BTreeMap::new)
OrInsertEmpty(map, k) == IF k \in DOMAIN map THEN map ELSE Insert(map, k, EmptyMap)

\* lines 78-82: the position of the first alphabetic character, None without one
first_letter(raw_name) ==
    IF \E i \in 1..Len(raw_name) : raw_name[i] \in Alphabetic
    THEN Some(Run(raw_name, {raw_name[i] : i \in 1..Len(raw_name)} \ Alphabetic))
    ELSE None

\* iter.skip(n)
Skip(s, n) == IF n >= Len(s) THEN <<>> ELSE Drop(s, n)

\* lines 83-89: the alphanumeric characters after skipping as many of them
\* as the raw name has characters before its first letter, upper-cased
model_of(raw_name, first) == to_uppercase(Skip(Only(raw_name, Alphanumeric), first))

\* lines 102-103: names = models.entry(model).or_insert_with(..);
\* names.insert(pascal_name, row)
InsertName(models, model, pascal_name, row) ==
    Insert(models, model, Insert(OrInsertEmpty(models, model)[model], pascal_name, row))

\* lines 93-105: the rows of one device
RECURSIVE InsertRows(_, _, _)
InsertRows(models, model, rows) ==
    IF rows = <<>> THEN models
    ELSE IF Head(rows).data_name = None THEN InsertRows(models, model, Tail(rows))
    ELSE InsertRows(InsertName(models, model,
                               Only(Unwrap(Head(rows).data_name), Alphabetic), Head(rows)),
                    model, Tail(rows))

\* lines 76-105: one device, its series entry created first
InsertDevice(map, series, model, rows) ==
    Insert(map, series, InsertRows(OrInsertEmpty(map, series)[series], model, rows))

\* lines 75-106: the devices in input order
RECURSIVE Aggregate(_, _)
Aggregate(map, devices) ==
    IF devices = <<>> THEN map
    ELSE Aggregate(InsertDevice(map,
                                to_uppercase(Head(devices).series),
                                model_of(Head(devices).raw_name,
                                         Unwrap(first_letter(Head(devices).raw_name))),
                                Head(devices).data),
                   Tail(devices))

\* lines 94-100: the names pushed for one device's rows
PushedNames(rows) ==
    {Only(Unwrap(rows[i].data_name), Alphabetic) :
        i \in {j \in 1..Len(rows) : rows[j].data_name # None}}

\* lines 73, 100, 108-109: every name pushed, sorted, duplicates removed
data_names_of(devices) ==
    SortedKeys(UNION {PushedNames(devices[d].data) : d \in 1..Len(devices)})

\* a piece of generated text: what one push_str writes
NoData ==
    [address |-> 0, size |-> 0, data_name |-> None, description |-> None,
     access |-> "", initial_value |-> None, range |-> None, units |-> None]

Piece(kind, series, model, name, names, rec) ==
    [kind |-> kind, series |-> series, model |-> model, name |-> name,
     names |-> names, rec |-> rec]

\* sort_by(address), stable: one entry put after the entries already in
\* place whose address is not larger
RECURSIVE Place(_, _, _)
Place(sorted, name, map) ==
    IF sorted = <<>> THEN <<name>>
    ELSE IF map[Head(sorted)].address <= map[name].address
         THEN <<Head(sorted)>> \o Place(Tail(sorted), name, map)
    ELSE <<name>> \o sorted

RECURSIVE SortFrom(_, _, _)
SortFrom(sorted, names, map) ==
    IF names = <<>> THEN sorted
    ELSE SortFrom(Place(sorted, Head(names), map), Tail(names), map)

\* the entries left in the map's own order
unsorted_names(map) == SortedKeys(DOMAIN map)

\* lines 170-171: the map's entries, sorted lowest address first
sorted_names(map) == SortFrom(<<>>, SortedKeys(DOMAIN map), map)

\* lines 173-216: the arms of one model
Arms(names, map) ==
    [i \in 1..Len(names) |-> Piece("DataName arm", <<>>, <<>>, names[i], <<>>, map[names[i]])]

\* lines 157-223: one model of the lookup function
ModelMatch(series, model, map) ==
    <<Piece("cfg", series, <<>>, <<>>, <<>>, NoData),
      Piece("Model arm", <<>>, model, <<>>, <<>>, NoData)>>
        \o Arms(sorted_names(map), map)
        \o <<Piece("catch-all", <<>>, <<>>, <<>>, <<>>, NoData),
             Piece("end of Model arm", <<>>, <<>>, <<>>, <<>>, NoData)>>

RECURSIVE ModelMatches(_, _, _)
ModelMatches(series, keys, models) ==
    IF keys = <<>> THEN <<>>
    ELSE ModelMatch(series, Head(keys), models[Head(keys)])
             \o ModelMatches(series, Tail(keys), models)

\* lines 155-225: the lookup function's arms, series by series
RECURSIVE SeriesMatches(_, _)
SeriesMatches(keys, map) ==
    IF keys = <<>> THEN <<>>
    ELSE ModelMatches(Head(keys), SortedKeys(DOMAIN map[Head(keys)]), map[Head(keys)])
             \o SeriesMatches(Tail(keys), map)

\* lines 143-146: the variants of one series in the Model enum
Variants(series, keys) ==
    [i \in 1..Len(keys) |-> Piece("Model variant", series, keys[i], <<>>, <<>>, NoData)]

\* lines 142-147
RECURSIVE ModelEnum(_, _)
ModelEnum(keys, map) ==
    IF keys = <<>> THEN <<>>
    ELSE Variants(Head(keys), SortedKeys(DOMAIN map[Head(keys)]))
             \o ModelEnum(Tail(keys), map)

\* lines 126-228: the library text
lib_text(map, data_names) ==
    <<Piece("ERROR_DEFINITION", <<>>, <<>>, <<>>, <<>>, NoData),
      Piece("CONTROL_TABLE_DATA", <<>>, <<>>, <<>>, <<>>, NoData),
      Piece("DERIVES", <<>>, <<>>, <<>>, <<>>, NoData),
      Piece("enum DataName", <<>>, <<>>, <<>>, data_names, NoData),
      Piece("DERIVES", <<>>, <<>>, <<>>, <<>>, NoData),
      Piece("enum Model", <<>>, <<>>, <<>>, <<>>, NoData)>>
        \o ModelEnum(SortedKeys(DOMAIN map), map)
        \o <<Piece("fn data: match model", <<>>, <<>>, <<>>, <<>>, NoData)>>
        \o SeriesMatches(SortedKeys(DOMAIN map), map)
        \o <<Piece("end of fn data", <<>>, <<>>, <<>>, <<>>, NoData)>>

\* line 156: one feature of the manifest per series
Features(keys) ==
    [i \in 1..Len(keys) |-> Piece("feature", keys[i], <<>>, <<>>, <<>>, NoData)]

\* lines 116-124, 156, 229: the manifest text
cargo_text(map) ==
    <<Piece("CARGO_PREAMBLE", <<>>, <<>>, <<>>, <<>>, NoData),
      Piece("default", <<>>, <<>>, <<>>, SortedKeys(DOMAIN map), NoData)>>
        \o Features(SortedKeys(DOMAIN map))

Generated(map, data_names) ==
    [kind |-> "Ok", addresses |-> map,
     lib |-> lib_text(map, data_names), cargo |-> cargo_text(map)]

\* lines 66-235: create_lib; a raw name without a letter makes the unwrap
\* of line 82 panic before anything is written
create_lib(devices) ==
    IF \E d \in 1..Len(devices) : first_letter(devices[d].raw_name) = None
    THEN [kind |-> "Panic", addresses |-> EmptyMap, lib |-> <<>>, cargo |-> <<>>]
    ELSE Generated(Aggregate(EmptyMap, devices), data_names_of(devices))

----------------------------------------------------------------------------
(* Inputs of merge_tables *)

\* most heading cells of a table
MaxCols == 2

\* most body cells of a table
MaxCells == 2

HeadTexts == {<<>>, <<"a">>, <<"b">>}

BodyTexts == {<<>>, <<"x">>, <<"y", ",">>}

Tables ==
    {[headings |-> h, body |-> b] :
        h \in SeqsUpTo(HeadTexts, MaxCols), b \in SeqsUpTo(BodyTexts, MaxCells)}

InitMerge ==
    /\ NoMain
    /\ pc = "merge"
    /\ page \in Tables \X Tables
    /\ merged = NoGrid
    /\ text = <<>> /\ rv = RvPanic
    /\ servo = <<>> /\ lowest_address = None /\ highest_address = None
    /\ lines = <<>> /\ data = NoRecords
    /\ servos = <<>> /\ addresses = EmptyMap /\ lib = <<>> /\ cargo = <<>>

\* one call of merge_tables on the page's two selected tables
MergeTables ==
    /\ pc = "merge"
    /\ merged' = merge_tables(page)
    /\ pc' = "done"
    /\ UNCHANGED <<text, rv, servo, lowest_address, highest_address, lines, data,
                   page, servos, addresses, lib, cargo>>
    /\ UNCHANGED main_vars

NextMerge == MergeTables

SpecMerge == InitMerge /\ [][NextMerge]_vars

----------------------------------------------------------------------------
(* Inputs of RangeValue::new *)

TokenChars == {"-", ",", "0", "7", "a", "Z", " "}

\* the extremes of the 32-bit and the 64-bit signed range, the neighbours
\* just outside them, and the tokens the documents are known to hold
BoundaryTokens ==
    { <<"2","1","4","7","4","8","3","6","4","7">>,
      <<"2","1","4","7","4","8","3","6","4","8">>,
      <<"-","2","1","4","7","4","8","3","6","4","8">>,
      <<"-","2","1","4","7","4","8","3","6","4","9">>,
      <<"0","0","2","1","4","7","4","8","3","6","4","7">>,
      <<"4","2","9","4","9","6","7","2","9","5">>,
      <<"9","2","2","3","3","7","2","0","3","6","8","5","4","7","7","5","8","0","7">>,
      <<"9","2","2","3","3","7","2","0","3","6","8","5","4","7","7","5","8","0","8">>,
      <<"-","9","2","2","3","3","7","2","0","3","6","8","5","4","7","7","5","8","0","8">>,
      <<"-","9","2","2","3","3","7","2","0","3","6","8","5","4","7","7","5","8","0","9">>,
      <<"1",",","0","2","3">>,
      <<"-","1",",","0","4","8",",","5","7","5">>,
      <<"-","P","W","M","L","i","m","i","t","3","6">>,
      <<"P","W","M","L","i","m","i","t">>,
      <<"A","c","c","e","l","e","r","a","t","i","o","n","L","i","m","i","t","4","0">> }

Tokens == SeqsUpTo(TokenChars, MaxLen) \cup BoundaryTokens

InitRange ==
    /\ NoMain
    /\ pc = "new"
    /\ text \in Tokens
    /\ rv = RvPanic
    /\ servo = <<>> /\ lowest_address = None /\ highest_address = None
    /\ lines = <<>> /\ data = NoRecords
    /\ page = <<>> /\ merged = NoGrid
    /\ servos = <<>> /\ addresses = EmptyMap /\ lib = <<>> /\ cargo = <<>>

\* one call of RangeValue::new(text)
NewRangeValue ==
    /\ pc = "new"
    /\ rv' = RangeValueNew(text)
    /\ pc' = "done"
    /\ UNCHANGED <<text, servo, lowest_address, highest_address, lines, data,
                   page, merged, servos, addresses, lib, cargo>>
    /\ UNCHANGED main_vars

NextRange == NewRangeValue

SpecRange == InitRange /\ [][NextRange]_vars

----------------------------------------------------------------------------
(* Inputs of parse_servo *)

\* most data rows of a grid
MaxRows == 3

Header5 == <<"Address", "Size(byte)", "Data Name", "Description", "Access">>

Header7 == Header5 \o <<"Initial Value", "Range">>

\* rows of the five-column tables: plain rows with each access token, the
\* templated indirect rows (numeric, N and other index tokens), a blank
\* separator row and a plain row whose description names an indirect row
Rows5 ==
    { <<<<"0">>, <<"1">>, <<"M","o","d","e","l"," ","N","u","m","b","e","r">>, <<"M","o","d","e","l"," ","n","u","m","b","e","r">>, <<"R">>>>,
      <<<<"7">>, <<"1">>, <<"I","D">>, <<"S","e","r","v","o"," ","I","D">>, <<"R","W">>>>,
      <<<<"8">>, <<"2">>, <<"L","o","c","k">>, <<"-">>, <<"R","/","R","W">>>>,
      <<<<"9">>, <<"1">>, <<"C","m","d">>, <<"W","r","i","t","e"," ","o","n","l","y">>, <<"W">>>>,
      <<<<"1","0">>, <<"1">>, <<"O","d","d">>, <<"O","t","h","e","r">>, <<"W","R">>>>,
      <<<<"1","6","8">>, <<"2">>, <<"I","n","d","i","r","e","c","t"," ","A","d","d","r","e","s","s"," ","1">>, <<"I","n","d","i","r","e","c","t"," ","A","d","d","r","e","s","s"," ","1">>, <<"R","W">>>>,
      <<<<"1","7","0">>, <<"2">>, <<"I","n","d","i","r","e","c","t"," ","A","d","d","r","e","s","s"," ","2">>, <<"I","n","d","i","r","e","c","t"," ","A","d","d","r","e","s","s"," ","2">>, <<"R","W">>>>,
      <<<<"2","2","2">>, <<"2">>, <<"I","n","d","i","r","e","c","t"," ","A","d","d","r","e","s","s"," ","2","8">>, <<"I","n","d","i","r","e","c","t"," ","A","d","d","r","e","s","s"," ","2","8">>, <<"R","W">>>>,
      <<<<"2","2","4">>, <<"1">>, <<"I","n","d","i","r","e","c","t"," ","D","a","t","a"," ","3">>, <<"I","n","d","i","r","e","c","t"," ","D","a","t","a"," ","3">>, <<"R","W">>>>,
      <<<<"ELLIPSIS">>, <<"2">>, <<"I","n","d","i","r","e","c","t"," ","A","d","d","r","e","s","s"," ","N">>, <<"I","n","d","i","r","e","c","t"," ","A","d","d","r","e","s","s"," ","N">>, <<"R","W">>>>,
      <<<<"ELLIPSIS">>, <<"1">>, <<"I","n","d","i","r","e","c","t"," ","D","a","t","a"," ","x">>, <<"ELLIPSIS">>, <<"R","W">>>>,
      <<<<"ELLIPSIS">>, <<"ELLIPSIS">>, <<"ELLIPSIS">>, <<"ELLIPSIS">>, <<"ELLIPSIS">>>>,
      <<<<"1","2">>, <<"1">>, <<"M","o","d","e">>, <<"s","e","e"," ","I","n","d","i","r","e","c","t"," ","A","d","d","r","e","s","s"," ","1">>, <<"R","W">>>> }

\* rows of the seven-column tables: range cells without a value, with one
\* tilde (numbers, names, a minus inside a side), with two tildes and
\* with none
Rows7 ==
    { <<<<"0">>, <<"2">>, <<"M","o","d","e","l"," ","N","u","m","b","e","r">>, <<"M","o","d","e","l"," ","n","u","m","b","e","r">>, <<"R">>, <<"1",",","0","6","0">>, <<"-">>>>,
      <<<<"3","6">>, <<"2">>, <<"P","W","M"," ","L","i","m","i","t">>, <<"P","W","M"," ","l","i","m","i","t">>, <<"R","W">>, <<"8","8","5">>, <<"0"," ","~"," ","8","8","5">>>>,
      <<<<"1","0","0">>, <<"2">>, <<"G","o","a","l"," ","P","W","M">>, <<"G","o","a","l"," ","P","W","M">>, <<"R","W">>, <<"-">>, <<"-","P","W","M"," ","L","i","m","i","t","(","3","6",")"," ","~"," ","P","W","M"," ","L","i","m","i","t","(","3","6",")">>>>,
      <<<<"1","1","6">>, <<"4">>, <<"G","o","a","l"," ","P","o","s","i","t","i","o","n">>, <<"G","o","a","l"," ","p","o","s","i","t","i","o","n">>, <<"R","W">>, <<"-">>, <<"0"," ","~"," ","1"," ","~"," ","2">>>>,
      <<<<"1","2","0">>, <<"1">>, <<"S","t","e","p">>, <<"S","t","e","p">>, <<"R","W">>, <<"-">>, <<"0"," ","~"," ","1","-","2">>>>,
      <<<<"1","2","2">>, <<"1">>, <<"M","o","v","i","n","g">>, <<"M","o","v","i","n","g">>, <<"R">>, <<"0">>, <<"1",",","0","2","3">>>>,
      <<<<"1","3","2">>, <<"4">>, <<"P","o","s","i","t","i","o","n">>, <<"P","o","s","i","t","i","o","n">>, <<"R">>, <<"-">>, <<"0"," ","~"," ","1",",","0","2","3">>>> }

\* a header row that names the "Data Name" column twice
Header6 == Header5 \o <<"Data Name">>

\* rows of the six-column tables: the two cells under "Data Name" differ,
\* or one of them is blank
Rows6 ==
    { <<<<"0">>, <<"1">>, <<"M","o","d","e","l"," ","N","u","m","b","e","r">>, <<"M","o","d","e","l"," ","n","u","m","b","e","r">>, <<"R">>, <<"M","o","d","e","l">>>>,
      <<<<"7">>, <<"1">>, <<"I","D">>, <<"S","e","r","v","o"," ","I","D">>, <<"R","W">>, <<"-">>>>,
      <<<<"8">>, <<"2">>, <<"-">>, <<"L","o","c","k","e","d">>, <<"R">>, <<"L","o","c","k">>>> }

Grids ==
    {<<Header5>> \o rows : rows \in SeqsUpTo(Rows5, MaxRows)}
        \cup {<<Header7>> \o rows : rows \in SeqsUpTo(Rows7, MaxRows)}
        \cup {<<Header6>> \o rows : rows \in SeqsUpTo(Rows6, MaxRows)}

InitServo ==
    /\ NoMain
    /\ pc = "parse"
    /\ servo \in Grids
    /\ lowest_address = None /\ highest_address = None
    /\ lines = <<>> /\ data = NoRecords
    /\ text = <<>> /\ rv = RvPanic
    /\ page = <<>> /\ merged = NoGrid
    /\ servos = <<>> /\ addresses = EmptyMap /\ lib = <<>> /\ cargo = <<>>

\* one call of parse_servo(servo)
ParseServo ==
    /\ pc = "parse"
    /\ \E out \in {parse_servo(servo)} :
          /\ lines' = out.lines
          /\ lowest_address' = out.lowest_address
          /\ highest_address' = out.highest_address
          /\ data' = out.data
    /\ pc' = "done"
    /\ UNCHANGED <<text, rv, servo, page, merged, servos, addresses, lib, cargo>>
    /\ UNCHANGED main_vars

NextServo == ParseServo

SpecServo == InitServo /\ [][NextServo]_vars

----------------------------------------------------------------------------
(* Inputs of create_lib *)

\* most devices handed to create_lib
MaxDevices == 2

Row(address, data_name) ==
    [address |-> address, size |-> 1, data_name |-> data_name, description |-> None,
     access |-> "ReadWrite", initial_value |-> None, range |-> None, units |-> None]

\* rows of a control table: two names that sanitize to the same field name,
\* a field that sorts before them by name and after them by address, and a
\* row without a name
RowPool ==
    { Row(7, Some(<<"I", "D">>)),
      Row(3, Some(<<"I", " ", "D">>)),
      Row(8, Some(<<"B", "a", "u", "d">>)),
      Row(9, None) }

\* the series and the raw name taken from a device's URL: two X-series
\* devices whose names differ by a leading digit, and an AX-series device;
\* every device of a run has a URL, and so a raw name, of its own
Identities ==
    { [series |-> <<"x">>, raw_name |-> <<"x", "l", "4", "3", "0">>],
      [series |-> <<"x">>, raw_name |-> <<"2", "x", "l", "4", "3", "0">>],
      [series |-> <<"a", "x">>, raw_name |-> <<"a", "x", "-", "1", "2", "a">>] }

Actuators ==
    {[series |-> id.series, raw_name |-> id.raw_name, data |-> rows] :
        id \in Identities, rows \in SeqsUpTo(RowPool, 2)}

InitLib ==
    /\ NoMain
    /\ pc = "create_lib"
    /\ servos \in SeqsUpTo(Actuators, MaxDevices)
    /\ \A i, j \in 1..Len(servos) : servos[i].raw_name = servos[j].raw_name => i = j
    /\ addresses = EmptyMap /\ lib = <<>> /\ cargo = <<>>
    /\ text = <<>> /\ rv = RvPanic
    /\ servo = <<>> /\ lowest_address = None /\ highest_address = None
    /\ lines = <<>> /\ data = NoRecords
    /\ page = <<>> /\ merged = NoGrid

\* one call of create_lib(&servos)
CreateLib ==
    /\ pc = "create_lib"
    /\ \E out \in {create_lib(servos)} :
          /\ addresses' = out.addresses
          /\ lib' = out.lib
          /\ cargo' = out.cargo
          /\ pc' = IF out.kind = "Ok" THEN "done" ELSE "panicked"
    /\ UNCHANGED <<text, rv, servo, lowest_address, highest_address, lines, data,
                   page, merged, servos>>
    /\ UNCHANGED main_vars

NextLib == CreateLib

SpecLib == InitLib /\ [][NextLib]_vars

----------------------------------------------------------------------------
(* main.rs: the orchestration of main (lines 181-233) *)

\* most devices selected for a run
MaxSelected == 3

\* the argument of buffer_unordered (20 in the source), scaled down with
\* the number of devices so that the limit is met
InFlight == 2

\* line 44-49: the device a task makes of the page it fetched
Fetched(id) ==
    [series |-> <<"x">>, raw_name |-> <<"x", "l", LowerSeq[id]>>,
     data |-> <<Row(id, Some(<<"I", "D">>))>>]

\* lines 189-205: the stream is exhausted and no join handle is left in the
\* buffer, so collect() returns
StreamDone_queue_only == stream = <<>>

StreamDone == stream = <<>> /\ buffer = {}

InitMain ==
    /\ pc = "fetch"
    /\ \E n \in 0..MaxSelected :
          /\ stream = [i \in 1..n |-> i]
          /\ tasks = [i \in 1..n |-> "unspawned"]
    /\ counter = 0 /\ buffer = {} /\ fetches = <<>>
    /\ servos = <<>> /\ addresses = EmptyMap /\ lib = <<>> /\ cargo = <<>>
    /\ text = <<>> /\ rv = RvPanic
    /\ servo = <<>> /\ lowest_address = None /\ highest_address = None
    /\ lines = <<>> /\ data = NoRecords
    /\ page = <<>> /\ merged = NoGrid

\* lines 190-202: buffer_unordered has room and takes the next device from
\* the stream; the map closure counts it and spawns its task
Spawn ==
    /\ pc = "fetch"
    /\ stream # <<>>
    /\ Cardinality(buffer) < InFlight
    /\ counter' = counter + 1
    /\ tasks' = [tasks EXCEPT ![Head(stream)] = "running"]
    /\ buffer' = buffer \cup {Head(stream)}
    /\ stream' = Tail(stream)
    /\ UNCHANGED <<pc, fetches, text, rv, servo, lowest_address, highest_address,
                   lines, data, page, merged, servos, addresses, lib, cargo>>

\* lines 196-202: a spawned task runs to its end on the runtime, whatever
\* main is doing: it returns its Actuator, or one of its unwraps panics
TaskEnds(id) ==
    /\ tasks[id] = "running"
    /\ \E outcome \in {"ok", "panicked"} : tasks' = [tasks EXCEPT ![id] = outcome]
    /\ UNCHANGED <<pc, stream, counter, buffer, fetches, text, rv, servo,
                   lowest_address, highest_address, lines, data, page, merged,
                   servos, addresses, lib, cargo>>

\* lines 203-204: buffer_unordered yields the join handle of a task that
\* has ended, in order of completion; collect pushes its result
Yield ==
    /\ pc = "fetch"
    /\ \E id \in buffer :
          /\ tasks[id] # "running"
          /\ buffer' = buffer \ {id}
          /\ fetches' = Append(fetches, [id |-> id, ok |-> tasks[id] = "ok"])
    /\ UNCHANGED <<pc, stream, counter, tasks, text, rv, servo, lowest_address,
                   highest_address, lines, data, page, merged, servos, addresses,
                   lib, cargo>>

\* line 205: the await on collect() returns
Collected ==
    /\ pc = "fetch"
    /\ StreamDone
    /\ pc' = "unwrap"
    /\ UNCHANGED <<stream, counter, tasks, buffer, fetches, text, rv, servo,
                   lowest_address, highest_address, lines, data, page, merged,
                   servos, addresses, lib, cargo>>

\* lines 212-225: every join result is unwrapped (a task that panicked makes
\* main panic); then create_lib is called, unless a format was asked for
\* and it is not the library
Unwrapped ==
    /\ pc = "unwrap"
    /\ IF \E i \in 1..Len(fetches) : ~fetches[i].ok
       THEN pc' = "panicked" /\ UNCHANGED servos
       ELSE /\ servos' = [i \in 1..Len(fetches) |-> Fetched(fetches[i].id)]
            /\ \E lib_wanted \in BOOLEAN :
                  pc' = IF lib_wanted THEN "create_lib" ELSE "done"
    /\ UNCHANGED <<stream, counter, tasks, buffer, fetches, text, rv, servo,
                   lowest_address, highest_address, lines, data, page, merged,
                   addresses, lib, cargo>>

NextMain ==
    \/ Spawn
    \/ \E id \in DOMAIN tasks : TaskEnds(id)
    \/ Yield
    \/ Collected
    \/ Unwrapped
    \/ CreateLib

SpecMain == InitMain /\ [][NextMain]_vars

----------------------------------------------------------------------------
(* Claims about RangeValue::new (checked under SpecRange) *)

\* the token shapes of the range-value grammar, stated on the token itself
Unsigned(s) == IF starts_with(s, "-") THEN Tail(s) ELSE s

IsIntegerToken(s) ==
    /\ Len(Unsigned(s)) >= 1
    /\ \A i \in 1..Len(Unsigned(s)) : Unsigned(s)[i] \in Digits

IsSymbolicToken(s) ==
    \E k \in 1..Len(Unsigned(s)) :
        /\ \A i \in 1..k : Unsigned(s)[i] \in Lower \cup Upper
        /\ \A i \in (k + 1)..Len(Unsigned(s)) : Unsigned(s)[i] \in Digits

\* the letters of a symbolic token
LettersOf(s) ==
    LET k == CHOOSE j \in 1..Len(Unsigned(s)) :
                 /\ \A i \in 1..j : Unsigned(s)[i] \in Lower \cup Upper
                 /\ \A i \in (j + 1)..Len(Unsigned(s)) : Unsigned(s)[i] \in Digits
    IN  SubSeq(Unsigned(s), 1, k)

\* C7: RangeValue::new returns Integer only for a token that (commas
\* stripped) matches ^-?[0-9]+$, a symbolic value only for one that matches
\* ^-?[A-Za-z]+[0-9]*$, and ends in a fatal error for every token that
\* matches neither pattern or both.
C7_ExactlyOneRule ==
    pc = "done" =>
        LET t == Without(text, {","})
        IN  /\ rv.kind = "Integer" => IsIntegerToken(t)
            /\ rv.kind = "Address" => IsSymbolicToken(t)
            /\ (IsIntegerToken(t) <=> IsSymbolicToken(t)) => rv.kind = "Panic"

\* a token of neither shape was handed in and rejected
C7_Witness ==
    /\ pc = "done"
    /\ Len(text) = 2
    /\ ~IsIntegerToken(Without(text, {","}))
    /\ ~IsSymbolicToken(Without(text, {","}))
    /\ rv.kind = "Panic"

Max32Digits == <<"2","1","4","7","4","8","3","6","4","7">>

Min32Digits == <<"2","1","4","7","4","8","3","6","4","8">>

Max64Digits ==
    <<"9","2","2","3","3","7","2","0","3","6","8","5","4","7","7","5","8","0","7">>

Min64Digits ==
    <<"9","2","2","3","3","7","2","0","3","6","8","5","4","7","7","5","8","0","8">>

\* the integer string s denotes a value of the signed range whose largest
\* and smallest values have the magnitudes maxDigits and minDigits
FitsIn(s, maxDigits, minDigits) ==
    IF starts_with(s, "-") THEN DigitsLeq(StripZeros(Tail(s)), minDigits)
    ELSE DigitsLeq(StripZeros(s), maxDigits)

\* the decimal rendering of an integer (its magnitude's digits and its sign)
DigitChar(d) ==
    CASE d = 0 -> "0" [] d = 1 -> "1" [] d = 2 -> "2" [] d = 3 -> "3"
      [] d = 4 -> "4" [] d = 5 -> "5" [] d = 6 -> "6" [] d = 7 -> "7"
      [] d = 8 -> "8" [] d = 9 -> "9"

RECURSIVE RenderNat(_)
RenderNat(v) ==
    IF v < 10 THEN <<DigitChar(v)>>
    ELSE RenderNat(v \div 10) \o <<DigitChar(v % 10)>>

RECURSIVE RenderNeg(_)
RenderNeg(v) ==
    LET d == (10 - (v % 10)) % 10
        q == (v + d) \div 10
    IN  IF q = 0 THEN <<DigitChar(d)>> ELSE RenderNeg(q) \o <<DigitChar(d)>>

Render(v) == IF v < 0 THEN <<"-">> \o RenderNeg(v) ELSE RenderNat(v)

\* the canonical spelling of an integer string: no leading zeros, no "-0"
Canonical(s) ==
    LET m == StripZeros(Unsigned(s))
    IN  IF starts_with(s, "-") /\ m # <<"0">> THEN <<"-">> \o m ELSE m

\* C8 as stated: every optionally signed decimal integer string whose value
\* fits in a signed 64-bit integer is accepted as Integer(v), v rendering
\* back to the same integer.
C8_Original ==
    (pc = "done" /\ IsIntegerToken(text) /\ FitsIn(text, Max64Digits, Min64Digits)) =>
        (rv.kind = "Integer" /\ Render(rv.value) = Canonical(text))

\* C8 amended: an optionally signed decimal integer string is accepted as
\* Integer(v), v rendering back to the same integer, exactly when its value
\* fits in a signed 32-bit integer; outside that range the call ends in a
\* parse error.
C8_FitsI32 ==
    (pc = "done" /\ IsIntegerToken(text)) =>
        IF FitsIn(text, Max32Digits, Min32Digits)
        THEN rv.kind = "Integer" /\ Render(rv.value) = Canonical(text)
        ELSE rv.kind = "Err"

\* the smallest 32-bit value was handed in and parsed
C8_Witness ==
    /\ pc = "done"
    /\ text = <<"-">> \o Min32Digits
    /\ rv.kind = "Integer"
    /\ rv.value = I32Min

\* C9: for a token made of an optional leading minus, one or more letters
\* and optional trailing digits, RangeValue::new returns a symbolic value
\* whose name is the token's letters and whose negative flag is set exactly
\* when the token starts with a minus.
C9_SymbolicNameAndSign ==
    (pc = "done" /\ IsSymbolicToken(text)) =>
        /\ rv.kind = "Address"
        /\ rv.name = LettersOf(text)
        /\ rv.negative <=> starts_with(text, "-")

\* "-PWMLimit36" was handed in and gave PWMLimit, negative
C9_Witness ==
    /\ pc = "done"
    /\ text = <<"-","P","W","M","L","i","m","i","t","3","6">>
    /\ rv = Address(<<"P","W","M","L","i","m","i","t">>, TRUE)

----------------------------------------------------------------------------
(* Claims about parse_servo (checked under SpecServo) *)

\* the column of a heading that occurs once in the grid's header row
ColumnOf(heading) == CHOOSE i \in 1..Len(servo[1]) : servo[1][i] = heading

\* the access cell of a retained row
AccessCell(line) == line[ColumnOf("Access")]

\* the access levels the code recognises, and the four the claim lists
Levels3 == (<<"R">> :> "Read") @@ (<<"R","W">> :> "ReadWrite") @@ (<<"R","/","R","W">> :> "ReadWrite")

Levels4 == Levels3 @@ (<<"W">> :> "Write")

\* every record carries the level `levels` gives its row's token, and the
\* call ends in the unknown-level failure only if some retained row holds a
\* token outside `levels`
AccessTotality(levels) ==
    /\ data.kind = "Ok" =>
          /\ Len(data.records) = Len(lines)
          /\ \A i \in 1..Len(lines) :
                /\ AccessCell(lines[i]) # None
                /\ Unwrap(AccessCell(lines[i])) \in DOMAIN levels
                /\ data.records[i].access = levels[Unwrap(AccessCell(lines[i]))]
    /\ data.why = "Unknown level" =>
          /\ data.kind = "Panic"
          /\ \E i \in 1..Len(lines) :
                /\ AccessCell(lines[i]) # None
                /\ Unwrap(AccessCell(lines[i])) \notin DOMAIN levels

\* C1 as stated: "R" -> Read, "W" -> Write, "RW" -> ReadWrite,
\* "R/RW" -> ReadWrite, and only another present token makes normalization
\* fail as an unknown access token.
C1_Original == pc = "done" => AccessTotality(Levels4)

\* C1 amended: "R" -> Read, "RW" -> ReadWrite, "R/RW" -> ReadWrite; every
\* other present token, "W" included, makes normalization fail as an unknown
\* access token, and no record is produced with a defaulted access level.
C1_AccessTotality == pc = "done" => AccessTotality(Levels3)

\* a grid whose rows hold "R" and "R/RW" was normalized into a Read and a
\* ReadWrite record
C1_Witness ==
    /\ pc = "done"
    /\ data.kind = "Ok"
    /\ \E i, j \in 1..Len(lines) :
          /\ AccessCell(lines[i]) = Some(<<"R">>)
          /\ data.records[i].access = "Read"
          /\ AccessCell(lines[j]) = Some(<<"R","/","R","W">>)
          /\ data.records[j].access = "ReadWrite"

\* the field-name text of a data row
NameOf(row) == row[ColumnOf("Data Name")]

\* the index of a row named "Indirect Address <n>" / "Indirect Data <n>",
\* <n> numeric; None for any other row
IndirectIndex(row) ==
    IF \E p \in IndirectPrefixes :
          /\ HasPrefixAt(NameOf(row), 1, p)
          /\ Len(NameOf(row)) > Len(p)
          /\ \A i \in (Len(p) + 1)..Len(NameOf(row)) : NameOf(row)[i] \in Digits
    THEN LET p == CHOOSE q \in IndirectPrefixes : HasPrefixAt(NameOf(row), 1, q)
         IN  Some(StripZeros(Drop(NameOf(row), Len(p))))
    ELSE None

\* the numeric indirect indexes that occur in the grid
IndirectIndexes ==
    {Unwrap(IndirectIndex(servo[r])) :
        r \in {q \in 2..Len(servo) : IndirectIndex(servo[q]) # None}}

\* C2: after parse_servo has processed all rows, the tracked minimum and
\* maximum indirect index equal the smallest and the largest <n> that
\* occurred in a row named "Indirect Address <n>" / "Indirect Data <n>".
C2_MinMaxTracked ==
    (pc = "done" /\ IndirectIndexes # {}) =>
        /\ lowest_address # None
        /\ highest_address # None
        /\ Unwrap(lowest_address) \in IndirectIndexes
        /\ Unwrap(highest_address) \in IndirectIndexes
        /\ \A n \in IndirectIndexes :
              /\ DigitsLeq(Unwrap(lowest_address), n)
              /\ DigitsLeq(n, Unwrap(highest_address))

\* the field-name text matches "Indirect Address <n>" / "Indirect Data <n>"
\* for some index token <n>
IsTemplated(row) ==
    \E p \in IndirectPrefixes : \E i \in 1..Len(NameOf(row)) : HasPrefixAt(NameOf(row), i, p)

\* every cell of the row is empty or made of placeholder glyphs
IsBlank(row) == \A i \in 1..Len(row) : \A j \in 1..Len(row[i]) : row[i][j] \in bad_chars

IsNormal(row) == ~IsBlank(row) /\ ~IsTemplated(row)

NormalRows == SelectSeq(Tail(servo), IsNormal)

\* C3: the rows whose field-name text matches the templated pattern are
\* excluded without an error and every other non-blank row is retained: the
\* retained rows, and the records made of them, are exactly the normal rows.
C3_ExactlyNormalRows ==
    pc = "done" =>
        /\ Len(lines) = Len(NormalRows)
        /\ \A i \in 1..Len(lines) : lines[i] = line_to_add(NormalRows[i])
        /\ data.kind = "Ok" => Len(data.records) = Len(NormalRows)

\* the columns of the header row that carry a heading
ColumnsOf(heading) == {i \in 1..Len(servo[1]) : servo[1][i] = heading}

FirstColumn(heading) == CHOOSE i \in ColumnsOf(heading) : \A j \in ColumnsOf(heading) : i <= j

LastColumn(heading) == CHOOSE i \in ColumnsOf(heading) : \A j \in ColumnsOf(heading) : j <= i

\* the headings whose cell parse_servo copies into a record unchanged, and
\* the record field each of them fills
CopiedHeadings == {"Data Name", "Description"}

FieldOf(rec, heading) == IF heading = "Data Name" THEN rec.data_name ELSE rec.description

\* every record's copied fields are the cells of the first, or of the last,
\* column that carries their heading
ReadFrom(first) ==
    (pc = "done" /\ data.kind = "Ok") =>
        \A heading \in CopiedHeadings : \A i \in 1..Len(data.records) :
            ColumnsOf(heading) # {} =>
                FieldOf(data.records[i], heading)
                    = lines[i][IF first THEN FirstColumn(heading) ELSE LastColumn(heading)]

\* C12 as stated: a header name that occurs more than once is looked up at
\* its first occurrence, and every field extracted by that name is read
\* from that first column.
C12_FirstOccurrence == ReadFrom(TRUE)

\* C12 amended: a header name that occurs more than once is looked up at its
\* last occurrence, and every field extracted by that name is read from
\* that last column.
C12_LastOccurrence == ReadFrom(FALSE)

\* C12 witness: a grid that names "Data Name" twice has been parsed into a
\* record whose data name is the cell of the second of the two columns and
\* not the cell of the first
C12_Witness ==
    /\ pc = "done" /\ data.kind = "Ok"
    /\ Cardinality(ColumnsOf("Data Name")) = 2
    /\ \E i \in 1..Len(data.records) :
          /\ data.records[i].data_name = lines[i][LastColumn("Data Name")]
          /\ data.records[i].data_name # lines[i][FirstColumn("Data Name")]
          /\ lines[i][FirstColumn("Data Name")] # None

\* the tildes of a cell
Tildes(cell) == Len(Only(cell, {"~"}))

\* a side of a range cell with everything but alphanumerics and minus signs
\* removed
KeepEveryMinus(side) == Only(side, Alphanumeric \cup {"-"})

\* a side of a range cell with everything but alphanumerics and a leading
\* minus removed
KeepLeadingMinus(side) ==
    (IF starts_with(KeepEveryMinus(side), "-") THEN <<"-">> ELSE <<>>)
        \o Only(side, Alphanumeric)

Stripped(side, leading) ==
    IF leading THEN KeepLeadingMinus(side) ELSE KeepEveryMinus(side)

IsRangeValue(r) == r.kind \in {"Integer", "Address"}

\* what a present "Range" cell with one tilde is to become
OneTilde(min, max) ==
    [fails |-> ~(IsRangeValue(min) /\ IsRangeValue(max)),
     range |-> IF IsRangeValue(min) /\ IsRangeValue(max) THEN Some(<<min, max>>) ELSE None]

\* what the "Range" cell of a retained row is to become
RangeExpected(cell, leading) ==
    IF cell # None /\ Tildes(Unwrap(cell)) = 1
    THEN OneTilde(RangeValueNew(Stripped(BeforeTilde(Unwrap(cell)), leading)),
                  RangeValueNew(Stripped(AfterTilde(Unwrap(cell)), leading)))
    ELSE [fails |-> FALSE, range |-> None]

\* grids with a "Range" column and neither "Min" nor "Max"
RangeGrid == ColumnsOf("Range") # {} /\ ColumnsOf("Min") = {} /\ ColumnsOf("Max") = {}

RangeCell(i) == lines[i][LastColumn("Range")]

\* the range of every record is what its row's cell is to become; the call
\* fails exactly when a side of a one-tilde cell is no range value
RangesAsExpected(leading) ==
    (pc = "done" /\ RangeGrid) =>
        /\ (data.kind = "Ok")
              = (\A i \in 1..Len(lines) : ~RangeExpected(RangeCell(i), leading).fails)
        /\ data.kind = "Ok" =>
              \A i \in 1..Len(data.records) :
                  data.records[i].range = RangeExpected(RangeCell(i), leading).range

\* C13 as stated: a present "Range" cell with exactly one tilde gives the
\* pair (min, max) parsed from its two sides after stripping everything but
\* alphanumerics and a leading minus; a cell with more than one tilde, or
\* with none, leaves the range absent and normalization does not fail.
C13_LeadingMinusKept == RangesAsExpected(TRUE)

\* C13 amended: the sides are stripped of everything but alphanumerics and
\* minus signs, wherever the minus stands; a side that is then no range
\* value fails the normalization; a cell with more than one tilde, or with
\* none, leaves the range absent and normalization does not fail.
C13_EveryMinusKept == RangesAsExpected(FALSE)

\* C13 witness: a grid has been normalized in which "0 ~ 1,023" became
\* (Integer(0), Integer(1023)) and a cell with two tildes became an absent
\* range
C13_Witness ==
    /\ pc = "done" /\ RangeGrid /\ data.kind = "Ok"
    /\ \E i, j \in 1..Len(data.records) :
          /\ RangeCell(i) = Some(<<"0", " ", "~", " ", "1", ",", "0", "2", "3">>)
          /\ data.records[i].range = Some(<<Integer(0), Integer(1023)>>)
          /\ RangeCell(j) # None /\ Tildes(Unwrap(RangeCell(j))) = 2
          /\ data.records[j].range = None

----------------------------------------------------------------------------
(* Claims about merge_tables (checked under SpecMerge) *)

\* the header vector of a table: its heading texts in title case
HeaderVector(table) ==
    [i \in 1..Len(table.headings) |-> to_case_Title(table.headings[i])]

\* every heading cell of the table holds a name
NamedHeadings(table) ==
    /\ Len(table.headings) >= 1
    /\ \A i \in 1..Len(table.headings) : table.headings[i] # <<>>

\* C5: for two tables whose header vectors differ, merge_tables ends in the
\* header-mismatch failure and returns no merged grid.  Stated for tables
\* that have at least one named heading each.
C5_HeaderMismatch ==
    (/\ pc = "done"
     /\ \E i \in 1..Len(page[1].headings) : page[1].headings[i] # <<>>
     /\ \E i \in 1..Len(page[2].headings) : page[2].headings[i] # <<>>
     /\ HeaderVector(page[1]) # HeaderVector(page[2]))
        => merged.kind = "Panic"

\* the body cells a table keeps: commas stripped, empty cells dropped
KeptCells(table) ==
    SelectSeq([i \in 1..Len(table.body) |-> Without(table.body[i], {","})], IsWord)

\* the rows of a table: its kept cells in groups of the header width, the
\* last row holding what is left
RECURSIVE Chunks(_, _)
Chunks(cells, width) ==
    IF cells = <<>> THEN <<>>
    ELSE IF Len(cells) <= width THEN <<cells>>
    ELSE <<SubSeq(cells, 1, width)>> \o Chunks(Drop(cells, width), width)

RowsOf(table) == Chunks(KeptCells(table), Len(table.headings))

\* the grid a merged text holds: its lines, each split into cells
GridOf(csv) == [i \in 1..Len(Lines(csv)) |-> SplitCells(Lines(csv)[i])]

\* C6: for two tables with identical headers the merged grid is the shared
\* header followed by table 1's rows and then table 2's rows, each in their
\* original order; its data-row count is the sum of the two row counts.
\* Stated for tables whose heading cells all hold a name.
C6_RowsConcatenated ==
    (/\ pc = "done"
     /\ NamedHeadings(page[1])
     /\ HeaderVector(page[1]) = HeaderVector(page[2]))
        => /\ merged.kind = "Ok"
           /\ GridOf(merged.csv)
                 = <<HeaderVector(page[1])>> \o RowsOf(page[1]) \o RowsOf(page[2])
           /\ Len(GridOf(merged.csv)) - 1 = Len(RowsOf(page[1])) + Len(RowsOf(page[2]))

\* C11: after merge_tables on two tables with identical headers, every
\* data row of the merged grid has exactly as many cells as the header,
\* whatever the number of body cells (counts that are not a multiple of the
\* header width and empty cells included).  Stated for tables whose heading
\* cells all hold a name.
C11_RowsHaveHeaderWidth ==
    (/\ pc = "done"
     /\ merged.kind = "Ok"
     /\ NamedHeadings(page[1])
     /\ HeaderVector(page[1]) = HeaderVector(page[2]))
        => \A i \in 2..Len(GridOf(merged.csv)) :
              Len(GridOf(merged.csv)[i]) = Len(HeaderVector(page[1]))

----------------------------------------------------------------------------
(* Claims about create_lib *)

\* the same devices in every order
Reorderings(devices) ==
    {[i \in 1..Len(devices) |-> devices[f[i]]] :
        f \in {g \in [1..Len(devices) -> 1..Len(devices)] :
                  \A i, j \in 1..Len(devices) : g[i] = g[j] => i = j}}

\* C4: create_lib run on the same devices in any two input orders writes the
\* same library text and the same manifest text, also when two devices map
\* to the same (series, model) key or a model has two records with the same
\* sanitized field name.
C4_OrderIndependent ==
    pc = "done" =>
        \A other \in Reorderings(servos) :
            /\ create_lib(other).lib = lib
            /\ create_lib(other).cargo = cargo

\* the places of the lookup function where the arms of a model begin
ModelArms == {i \in 1..Len(lib) : lib[i].kind = "Model arm"}

EndOfArms(i) ==
    CHOOSE j \in i..Len(lib) :
        /\ lib[j].kind = "end of Model arm"
        /\ \A k \in i..(j - 1) : lib[k].kind # "end of Model arm"

\* the arms of `match name` under the model arm at i, the catch-all included
NameArms(i) == SubSeq(lib, i + 1, EndOfArms(i) - 1)

Found(rec) == [ok |-> TRUE, value |-> rec]

NoMatchingAddress == [ok |-> FALSE, value |-> NoData]

\* what `match name` evaluates to: the first arm that matches
RECURSIVE Lookup(_, _)
Lookup(arms, name) ==
    IF arms = <<>> THEN NoMatchingAddress
    ELSE IF Head(arms).kind = "catch-all" THEN NoMatchingAddress
    ELSE IF Head(arms).name = name THEN Found(Head(arms).rec)
    ELSE Lookup(Tail(arms), name)

\* field names to look up: every name of the DataName enum and one more
LookupNames ==
    UNION {PushedNames(servos[d].data) : d \in 1..Len(servos)} \cup {<<"T", "o", "r", "q", "u", "e">>}

ArmsInOrder(arms, fields) ==
    /\ Len(arms) = Cardinality(DOMAIN fields) + 1
    /\ arms[Len(arms)].kind = "catch-all"
    /\ \A k \in 1..(Len(arms) - 1) : arms[k].kind = "DataName arm"
    /\ \A k \in 1..(Len(arms) - 2) : arms[k].rec.address <= arms[k + 1].rec.address
    /\ \A name \in LookupNames :
          Lookup(arms, name) =
              IF name \in DOMAIN fields THEN Found(fields[name]) ELSE NoMatchingAddress

\* C10: in the generated lookup function every model of the aggregated map
\* has one block of arms, one arm per field of the model in ascending order
\* of address, then a single catch-all arm returning the no-matching-field
\* error; a (model, field) lookup succeeds exactly when the aggregated map
\* has that field for that model, and then returns the map's record.
C10_ArmsAscendingThenCatchAll ==
    pc = "done" =>
        /\ \A series \in DOMAIN addresses : \A model \in DOMAIN addresses[series] :
              \E i \in ModelArms :
                  /\ lib[i].model = model
                  /\ lib[i - 1].kind = "cfg" /\ lib[i - 1].series = series
                  /\ ArmsInOrder(NameArms(i), addresses[series][model])
                  /\ \A j \in ModelArms :
                        (lib[j].model = model /\ lib[j - 1].series = series) => j = i
        /\ \A i \in ModelArms :
              /\ lib[i - 1].series \in DOMAIN addresses
              /\ lib[i].model \in DOMAIN addresses[lib[i - 1].series]

\* C10 witness: a model whose fields' name order is not their address order
\* has been written, its arms sorted by address
C10_Witness ==
    /\ pc = "done"
    /\ \E i \in ModelArms :
          /\ Len(NameArms(i)) = 3
          /\ NameArms(i)[1].name = <<"I", "D">>
          /\ NameArms(i)[2].name = <<"B", "a", "u", "d">>
          /\ NameArms(i)[1].rec.address < NameArms(i)[2].rec.address

\* the devices handed to create_lib that have a row with a data name
HasNamedRow(device) == \E i \in 1..Len(device.data) : device.data[i].data_name # None

\* the raw identifier with every non-alphanumeric character removed and the
\* rest upper-cased
ModelId(raw_name) == to_uppercase(Only(raw_name, Alphanumeric))

\* C14: for each device the model key under which create_lib aggregates its
\* records is the raw identifier with every non-alphanumeric character
\* removed and the rest upper-cased, no alphanumeric character dropped
\* (leading digits included), and the series key is the upper-cased series
\* token.
C14_ModelKeyKeepsAlphanumerics ==
    pc = "done" =>
        \A d \in 1..Len(servos) :
            /\ to_uppercase(servos[d].series) \in DOMAIN addresses
            /\ HasNamedRow(servos[d]) =>
                  ModelId(servos[d].raw_name)
                      \in DOMAIN addresses[to_uppercase(servos[d].series)]

----------------------------------------------------------------------------
(* Claims about main (checked under SpecMain) *)

\* the devices selected for the run
Selected == DOMAIN tasks

\* create_lib has been called
AggregationBegun == pc = "create_lib" \/ lib # <<>>

\* every selected device's task has ended with a device, its result has
\* been collected, and create_lib is handed exactly these devices
AllResultsAvailable ==
    /\ \A id \in Selected : tasks[id] = "ok"
    /\ \A id \in Selected : \E i \in 1..Len(fetches) : fetches[i].id = id /\ fetches[i].ok
    /\ Len(servos) = Cardinality(Selected)
    /\ \A id \in Selected : \E i \in 1..Len(servos) : servos[i] = Fetched(id)

\* C15: in every run, under any interleaving of the concurrently fetched
\* device pipelines (never more in flight than buffer_unordered allows),
\* create_lib does not start until every selected device's pipeline has
\* finished and its result is available, and no device result is produced
\* after aggregation has begun.
C15_BarrierBeforeAggregation ==
    /\ [](Cardinality({id \in Selected : tasks[id] = "running"}) <= InFlight)
    /\ [](AggregationBegun => AllResultsAvailable)
    /\ [][AggregationBegun => (tasks' = tasks /\ fetches' = fetches)]_vars

\* C15 witness: create_lib is about to run on more devices than may be in
\* flight at once, their results collected in an order that is not the
\* order of selection
C15_Witness ==
    /\ pc = "create_lib"
    /\ Len(servos) > InFlight
    /\ fetches[1].id # 1
    /\ AllResultsAvailable

====
